---- MODULE Spec2Model ----
(***************************************************************************)
(* A model of skeptic's runtime support (src/skeptic/src/rt.rs): the       *)
(* lock-manifest reader (LockedDeps), the fingerprint scanner              *)
(* (Fingerprint::from_path, guess_ext), the dependency resolver            *)
(* (get_rlib_dependencies) and the two entry points compile_test and       *)
(* run_test.                                                               *)
(*                                                                         *)
(* Strings are sequences of tokens.  A token is one of the characters the  *)
(* code treats specially ("-", "_", ".", " ") or a chunk of text free of   *)
(* them ("serde", "abc123", "json").  A path is a sequence of components,  *)
(* each component a string.  Option values are sequences of length at most *)
(* one: None is << >>, Some(x) is <<x>>.                                   *)
(***************************************************************************)
EXTENDS Integers, Sequences, FiniteSets, TLC

None == << >>
Some(x) == <<x>>
IsSome(o) == Len(o) = 1
Unwrap(o) == o[1]

Front(s) == SubSeq(s, 1, Len(s) - 1)
Last(s) == s[Len(s)]

RECURSIVE Reverse(_)
Reverse(s) == IF Len(s) = 0 THEN << >> ELSE Append(Reverse(Tail(s)), Head(s))

\* The sequences over S of length at most n.
SeqsUpTo(S, n) == UNION {[1..k -> S] : k \in 0..n}

(***************************************************************************)
(* str: split, rsplit, split_whitespace, replace, join                     *)
(***************************************************************************)

\* str::split(sep): n occurrences of sep give n+1 pieces, empty ones included.
RECURSIVE Split(_, _)
Split(s, sep) ==
    IF \A i \in 1..Len(s) : s[i] # sep
    THEN <<s>>
    ELSE LET i == CHOOSE k \in 1..Len(s) :
                      s[k] = sep /\ \A j \in 1..(k - 1) : s[j] # sep
         IN  <<SubSeq(s, 1, i - 1)>> \o Split(SubSeq(s, i + 1, Len(s)), sep)

\* str::rsplit(sep): the same pieces, yielded from the right.
RSplit(s, sep) == Reverse(Split(s, sep))

\* str::split_whitespace(): the non-empty pieces between whitespace.
SplitWhitespace(s) == SelectSeq(Split(s, " "), LAMBDA p : Len(p) > 0)

\* str::replace(from, to) for one-character patterns.
Replace(s, from, to) == [i \in 1..Len(s) |-> IF s[i] = from THEN to ELSE s[i]]

\* [&str]::join(sep)
RECURSIVE Join(_, _)
Join(parts, sep) ==
    IF Len(parts) = 0 THEN << >>
    ELSE IF Len(parts) = 1 THEN parts[1]
    ELSE parts[1] \o <<sep>> \o Join(Tail(parts), sep)

(***************************************************************************)
(* std::path                                                               *)
(***************************************************************************)

\* The position of the last "." of a file name, 0 when there is none.
LastDot(name) ==
    IF \A i \in 1..Len(name) : name[i] # "." THEN 0
    ELSE CHOOSE k \in 1..Len(name) :
             name[k] = "." /\ \A j \in (k + 1)..Len(name) : name[j] # "."

\* Path::file_name: None for the empty path and for a path ending in "..".
FileName(p) ==
    IF Len(p) = 0 \/ Last(p) = <<".", ".">> THEN None ELSE Some(Last(p))

\* Path::file_stem: the file name up to its last ".", the whole name when it
\* has no "." or only a leading one.
FileStem(p) ==
    IF ~IsSome(FileName(p)) THEN None
    ELSE LET name == Unwrap(FileName(p))
             d == LastDot(name)
         IN  IF d <= 1 THEN Some(name) ELSE Some(SubSeq(name, 1, d - 1))

\* Path::extension: what follows the last "." of the file name, None when it
\* has no "." or only a leading one.
Extension(p) ==
    IF ~IsSome(FileName(p)) THEN None
    ELSE LET name == Unwrap(FileName(p))
             d == LastDot(name)
         IN  IF d <= 1 THEN None ELSE Some(SubSeq(name, d + 1, Len(name)))

\* Path::parent: None for the empty path.
Parent(p) == IF Len(p) = 0 THEN None ELSE Some(Front(p))

\* PathBuf::pop: drops the last component, leaves a path without one alone.
Pop(p) == IF Len(p) = 0 THEN p ELSE Front(p)

\* PathBuf::set_extension: the file stem, ".", ext; no change without a file name.
SetExtension(p, ext) ==
    IF ~IsSome(FileStem(p)) THEN p
    ELSE Append(Front(p), Unwrap(FileStem(p)) \o <<".">> \o ext)


(***************************************************************************)
(* State                                                                   *)
(***************************************************************************)
VARIABLES
    pc,            \* where the call stands
    compile_type,  \* CompileType: "Full" (run_test) or "Check" (compile_test)
    root_dir,      \* the entry point's root_dir
    out_dir,       \* the entry point's out_dir
    cargo,         \* what `cargo metadata` answers, per manifest directory
    lock_reads,    \* the directories LockedDeps::from_path was called with
    dependencies,  \* LockedDeps.dependencies
    collected,     \* the pairs the LockedDeps iterator has yielded
    locked_deps,   \* get_rlib_dependencies' locked_deps
    files,         \* the paths that exist under <target>/deps
    files0,        \* `files` when the resolution started
    metas,         \* the entries under <target>/.fingerprint: path -> attributes
    walk,          \* the entries WalkDir has not yielded yet
    yielded,       \* the entries yielded so far, each with from_path's result
    finger,        \* the fingerprint the loop body last ran on
    togo,          \* how many fingerprints the stream may still give
    found_deps,    \* get_rlib_dependencies' found_deps
    resolved,      \* the value get_rlib_dependencies returned
    outdir,        \* the TempDir: "none", "present", "removed"
    child,         \* the Output of the subprocess being interpreted
    trace          \* the steps performed, in order

inputVars == <<compile_type, root_dir, out_dir, cargo>>
callVars == <<inputVars, lock_reads, outdir, child, trace>>
scanVars == <<walk, yielded, finger, togo, found_deps, resolved>>
lockVars == <<dependencies, collected>>
cacheVars == <<files0, metas>>

vars == <<pc, callVars, lockVars, locked_deps, files, cacheVars, walk, yielded,
          finger, togo, found_deps, resolved>>

(***************************************************************************)
(* Fingerprint                                                             *)
(***************************************************************************)

\* guess_ext: the path under the first extension of exts that exists.
RECURSIVE guess_ext(_, _)
guess_ext(pth, exts) ==
    IF Len(exts) = 0 THEN None
    ELSE IF SetExtension(pth, Head(exts)) \in files
         THEN Some(SetExtension(pth, Head(exts)))
         ELSE guess_ext(SetExtension(pth, Head(exts)), Tail(exts))

ArtifactExts == << <<"rlib">>, <<"so">>, <<"dylib">>, <<"dll">> >>

\* libname_parts without line 113's reverse()
LibnameParts_NotReversed(captures) == Tail(captures)

\* libname_parts: what rsplit('-') yields after the hash, put back in order.
LibnameParts(captures) == Reverse(Tail(captures))

\* Fingerprint::from_path(pth).ok()
Fingerprint_from_path(pth) ==
    LET stem == IF IsSome(Parent(pth)) THEN FileStem(Unwrap(Parent(pth))) ELSE None
    IN  IF ~IsSome(stem) THEN None
        ELSE
        LET captures == RSplit(Unwrap(stem), "-")
            hash == Head(captures)
            libname == Join(LibnameParts(captures), "_")
            rlib == guess_ext(
                Pop(Pop(Pop(pth))) \o << <<"deps">>, <<"lib">> \o libname \o <<"-">> \o hash >>,
                ArtifactExts)
        IN  IF Extension(pth) # Some(<<"json">>) THEN None
            ELSE IF ~IsSome(rlib) THEN None
            ELSE IF ~metas[pth].readable THEN None
            ELSE Some([libname |-> libname,
                       version |-> None,
                       rlib |-> Unwrap(rlib),
                       mtime |-> metas[pth].mtime])

\* HashMap insert through an entry: the key's value is set, the rest is kept.
MapInsert(m, k, v) == [x \in DOMAIN m \cup {k} |-> IF x = k THEN v ELSE m[x]]

(***************************************************************************)
(* LockedDeps                                                              *)
(***************************************************************************)

\* What `cargo metadata` answers for a manifest it cannot read.
NoMetadata == [ok |-> FALSE, resolve |-> None, workspace_members |-> << >>,
               editions |-> << >>]

\* get_cargo_meta(dir.join("Cargo.toml"))
get_cargo_meta(dir) == IF dir \in DOMAIN cargo THEN cargo[dir] ELSE NoMetadata

\* .filter(|node| workspace_members.contains(&node.id))
\* .flat_map(|node| node.dependencies.into_iter())
RECURSIVE MemberEdges(_, _)
MemberEdges(nodes, members) ==
    IF Len(nodes) = 0 THEN << >>
    ELSE (IF \E i \in 1..Len(members) : members[i] = Head(nodes).id
          THEN Head(nodes).dependencies ELSE << >>)
         \o MemberEdges(Tail(nodes), members)

\* LockedDeps::from_path(dir).ok(): the `dependencies` of the LockedDeps.
LockedDeps_from_path(dir) ==
    LET metadata == get_cargo_meta(dir)
    IN  IF ~metadata.ok THEN None
        ELSE IF ~IsSome(metadata.resolve) THEN None
        ELSE Some(MemberEdges(Unwrap(metadata.resolve), metadata.workspace_members)
                    \o metadata.workspace_members)

\* The match of next(): the pair of an identifier, None when it has fewer
\* than two whitespace-separated tokens.
ParseId(val) ==
    LET it == SplitWhitespace(val)
    IN  IF Len(it) >= 2 THEN Some(<<Replace(it[1], "-", "_"), it[2]>>) ELSE None

\* collect() into the HashMap: a later pair of a name overrides an earlier one.
RECURSIVE CollectMap(_)
CollectMap(pairs) ==
    IF Len(pairs) = 0 THEN << >>
    ELSE MapInsert(CollectMap(Front(pairs)), Last(pairs)[1], Last(pairs)[2])

\* One call of next() by collect(), line 175: the last identifier is popped;
\* its pair is yielded, or next() returns None and the collection is over.
IterNext ==
    /\ pc = "iter"
    /\ IF Len(dependencies) > 0 /\ IsSome(ParseId(Last(dependencies)))
       THEN /\ dependencies' = Front(dependencies)
            /\ collected' = Append(collected, Unwrap(ParseId(Last(dependencies))))
            /\ UNCHANGED <<pc, locked_deps>>
       ELSE /\ dependencies' = Pop(dependencies)
            /\ locked_deps' = CollectMap(collected)
            /\ pc' = "scan"
            /\ UNCHANGED collected
    /\ UNCHANGED <<callVars, files, cacheVars, scanVars>>

(***************************************************************************)
(* get_rlib_dependencies: the scan of <target>/.fingerprint (lines 174-207)*)
(***************************************************************************)


\* an entry keyed by the artifact's file name instead of the library name
EntryKey_ByArtifact(f) == Last(f.rlib)

\* finger.name(), the key of found_deps.entry(..), line 185
EntryKey(f) == f.libname

\* an occupied arm that takes whatever is fresher, versioned or not
OccupiedEntry_AnyFresher(found, f, locked_ver) ==
    IF found[EntryKey(f)].mtime < f.mtime
    THEN MapInsert(found, EntryKey(f), f)
    ELSE found

\* (Entry::Occupied(e), Some(ver)), lines 186-192, and the `_ => ()` arm an
\* occupied entry and a fingerprint without version fall to.
OccupiedEntry(found, f, locked_ver) ==
    IF IsSome(f.version)
    THEN IF locked_ver = Unwrap(f.version) /\ found[EntryKey(f)].mtime < f.mtime
         THEN MapInsert(found, EntryKey(f), f)
         ELSE found
    ELSE found

\* (Entry::Vacant(e), ver), lines 193-198
VacantEntry(found, f, locked_ver) ==
    IF (IF IsSome(f.version) THEN Unwrap(f.version) ELSE locked_ver) = locked_ver
    THEN MapInsert(found, EntryKey(f), f)
    ELSE found

\* The loop body, lines 183-201: found_deps after finger f.
ProcessFinger(found, f) ==
    IF f.libname \notin DOMAIN locked_deps THEN found
    ELSE IF EntryKey(f) \in DOMAIN found
         THEN OccupiedEntry(found, f, locked_deps[f.libname])
         ELSE VacantEntry(found, f, locked_deps[f.libname])

\* a final filter that keeps every entry
RlibExists_Unchecked(f) == TRUE

\* `val.rlib.exists()` of the final filter_map
RlibExists(f) == f.rlib \in files

\* Lines 204-207: the entries whose artifact exists, as a set (the Vec's order
\* is the HashMap's iteration order).
FilterExisting(found) == {found[k] : k \in {x \in DOMAIN found : RlibExists(found[x])}}

\* WalkDir yields a directory before its contents and finishes a directory
\* before it goes on to the next one; the order within a directory is the
\* order the file system lists it in, which is not fixed.
IsPrefix(d, p) == Len(d) <= Len(p) /\ SubSeq(p, 1, Len(d)) = d
HasUnvisitedChild(d) == \E q \in walk : Parent(q) = Some(d)
WalkNext ==
    IF Len(yielded) = 0
    THEN {p \in walk : \A q \in walk : Len(p) <= Len(q)}
    ELSE LET last == yielded[Len(yielded)].path
             open == {d \in {SubSeq(last, 1, n) : n \in 0..Len(last)} :
                          HasUnvisitedChild(d)}
         IN  {p \in walk : \E d \in open :
                  /\ Parent(p) = Some(d)
                  /\ \A e \in open : Len(e) <= Len(d)}

\* One turn of the for loop: the walk yields p, from_path is tried on it, and
\* the loop body runs on the fingerprint it gives.
Visit(p) ==
    /\ pc = "scan"
    /\ p \in WalkNext
    /\ LET out == Fingerprint_from_path(p)
       IN  /\ yielded' = Append(yielded, [path |-> p, out |-> out])
           /\ finger' = out
           /\ found_deps' = IF IsSome(out) THEN ProcessFinger(found_deps, Unwrap(out))
                            ELSE found_deps
    /\ walk' = walk \ {p}
    /\ UNCHANGED <<pc, callVars, lockVars, locked_deps, files, cacheVars, togo, resolved>>

\* The walk is over: the final filter, and the return.
FinishScan ==
    /\ pc = "scan"
    /\ walk = {}
    /\ resolved' = Some(FilterExisting(found_deps))
    /\ trace' = Append(trace, "resolved")
    /\ pc' = "resolved"
    /\ UNCHANGED <<inputVars, lock_reads, outdir, child, lockVars, locked_deps, files,
                   cacheVars, walk, yielded, finger, togo, found_deps>>

\* The build cache is not this program's: an artifact may be pruned while the
\* scan runs.
MaxRemovals == 1
RemoveArtifact(a) ==
    /\ pc = "scan"
    /\ a \in files
    /\ Cardinality(files0 \ files) < MaxRemovals
    /\ files' = files \ {a}
    /\ UNCHANGED <<pc, callVars, lockVars, locked_deps, cacheVars, walk, yielded,
                   finger, togo, found_deps, resolved>>

(***************************************************************************)
(* The build cache the scan runs on                                        *)
(***************************************************************************)
MaxSegs == 3
MaxTime == 2

V1 == <<"1", ".", "0", ".", "0">>
V2 == <<"2", ".", "0", ".", "0">>
Versions == {V1, V2}

\* target_dir.join(".fingerprint/")
FingerprintDir(target) == Append(target, <<".", "fingerprint">>)

\* cargo's layout: the unit built in .fingerprint/<pkg>-<hash> leaves
\* deps/lib<pkg, "-" as "_">-<hash>.<ext>
CargoArtifact(target, unit, ext) ==
    LET parts == Split(unit, "-")
    IN  target \o << <<"deps">>,
                     <<"lib">> \o Join(Front(parts), "_") \o <<"-">> \o Last(parts)
                        \o <<".">> \o ext >>

Target == << <<"t">> >>
SegSet == {<<"serde">>, <<"abc123">>, <<"my", ".", "lib">>}
UnitNames == {Join(ss, "-") : ss \in SeqsUpTo(SegSet, MaxSegs) \ {<< >>}}
FileNames == {<<"lib", "-", "serde", ".", "json">>, <<"invoked", ".", "timestamp">>,
              <<"dep", "-", "lib">>, <<".", "json">>}
ExtSet == {ArtifactExts[i] : i \in 1..Len(ArtifactExts)}

DirAttrs == [mtime |-> 1, readable |-> TRUE, ver |-> V1]
LockedOne == (<<"serde">> :> V1) @@ (<<"serde", "_", "abc123">> :> V1)
                @@ (<<"abc123", "_", "serde">> :> V1)

\* What every specification but the entry points' leaves alone.
NoCall ==
    /\ compile_type = "Check"
    /\ root_dir = << >>
    /\ out_dir = << >>
    /\ lock_reads = << >>
    /\ outdir = "none"
    /\ child = << >>
    /\ trace = << >>

ScanStart ==
    /\ pc = "scan"
    /\ files0 = files
    /\ walk = DOMAIN metas
    /\ yielded = << >>
    /\ finger = None
    /\ togo = 0
    /\ found_deps = << >>
    /\ resolved = None

\* A cache of one unit: any unit name, any file in it, any set of artifacts.
InitOneFile ==
    \E unit \in UnitNames, file \in FileNames, exts \in SUBSET ExtSet, r \in BOOLEAN :
        /\ metas = (FingerprintDir(Target) :> DirAttrs)
                   @@ (Append(FingerprintDir(Target), unit) :> DirAttrs)
                   @@ (FingerprintDir(Target) \o <<unit, file>>
                          :> [mtime |-> 1, readable |-> r, ver |-> V1])
        /\ files = {CargoArtifact(Target, unit, e) : e \in exts}
        /\ locked_deps = LockedOne

Foo == <<"foo">>
Bar == <<"bar">>
FooH1 == <<"foo", "-", "h1">>
FooH2 == <<"foo", "-", "h2">>
BarH1 == <<"bar", "-", "h1">>
LibJson == <<"lib", "-", "foo", ".", "json">>
MetaFile(target, unit) == FingerprintDir(target) \o <<unit, LibJson>>

\* A cache of three units, two of them builds of foo.
InitCache ==
    \E m1, m2 \in 1..MaxTime, v1, v2 \in Versions,
       gone \in SUBSET {FooH1, FooH2}, lk \in {(Foo :> V1), (Foo :> V1) @@ (Bar :> V2)} :
        /\ metas = (FingerprintDir(Target) :> DirAttrs)
                   @@ (Append(FingerprintDir(Target), FooH1) :> DirAttrs)
                   @@ (Append(FingerprintDir(Target), FooH2) :> DirAttrs)
                   @@ (Append(FingerprintDir(Target), BarH1) :> DirAttrs)
                   @@ (MetaFile(Target, FooH1) :> [mtime |-> m1, readable |-> TRUE, ver |-> v1])
                   @@ (MetaFile(Target, FooH2) :> [mtime |-> m2, readable |-> TRUE, ver |-> v2])
                   @@ (MetaFile(Target, BarH1) :> [mtime |-> 1, readable |-> TRUE, ver |-> V2])
        /\ files = {CargoArtifact(Target, u, <<"rlib">>) : u \in {FooH1, FooH2} \ gone}
                      \cup {CargoArtifact(Target, BarH1, <<"so">>)}
        /\ locked_deps = lk

NoLock ==
    /\ cargo = << >>
    /\ dependencies = << >>
    /\ collected = << >>

InitScan == NoCall /\ NoLock /\ (InitOneFile \/ InitCache) /\ ScanStart

NextScan ==
    \/ \E p \in walk : Visit(p)
    \/ FinishScan
    \/ \E a \in files : RemoveArtifact(a)

SpecScan == InitScan /\ [][NextScan]_vars

(***************************************************************************)
(* Properties of the scan                                                 *)
(***************************************************************************)

\* The entry the step has just yielded, with from_path's result.
JustYielded == yielded'[Len(yielded')]
Yields == Len(yielded') = Len(yielded) + 1

\* <T>/.fingerprint/<unit>/<file>
IsUnitFile(p) ==
    /\ Len(p) = Len(Target) + 3
    /\ SubSeq(p, 1, Len(Target) + 1) = FingerprintDir(Target)
UnitOf(p) == p[Len(p) - 1]
HasJsonSuffix(name) ==
    Len(name) >= 3 /\ SubSeq(name, Len(name) - 1, Len(name)) = <<".", "json">>
DotFree(s) == \A i \in 1..Len(s) : s[i] # "."

\* <T>/deps/lib<s1_..._sk>-<hash>.<ext> for the unit s1-...-sk-<hash>
ClaimedName(unit) == Join(Front(Split(unit, "-")), "_")
ClaimedArtifact(unit, ext) ==
    Target \o << <<"deps">>,
                 <<"lib">> \o ClaimedName(unit) \o <<"-">> \o Last(Split(unit, "-"))
                    \o <<".">> \o ext >>
ExistingExts(unit) ==
    {i \in 1..Len(ArtifactExts) : ClaimedArtifact(unit, ArtifactExts[i]) \in files}
FirstExisting(unit) ==
    ArtifactExts[CHOOSE i \in ExistingExts(unit) : \A j \in ExistingExts(unit) : i <= j]

\* What the specification says from_path yields for the readable file p of unit
\* s1-...-sk-<hash>, k >= 1.
AsClaimed(p, out) ==
    IF HasJsonSuffix(Last(p)) /\ ExistingExts(UnitOf(p)) # {}
    THEN /\ IsSome(out)
         /\ Unwrap(out).libname = ClaimedName(UnitOf(p))
         /\ Unwrap(out).rlib = ClaimedArtifact(UnitOf(p), FirstExisting(UnitOf(p)))
    ELSE out = None

C9Case(p) ==
    /\ IsUnitFile(p)
    /\ Len(Split(UnitOf(p), "-")) >= 2
    /\ metas[p].readable

\* The end-to-end case: .fingerprint/serde-abc123/lib-serde.json with
\* deps/libserde-abc123.rlib, serde 1.0.0 locked.
SerdeUnit == <<"serde", "-", "abc123">>
SerdeRlib == Target \o << <<"deps">>, <<"lib", "serde", "-", "abc123", ".", "rlib">> >>
SerdeCase ==
    /\ pc = "resolved"
    /\ FingerprintDir(Target) \o <<SerdeUnit, <<"lib", "-", "serde", ".", "json">> >>
          \in DOMAIN metas
    /\ metas[FingerprintDir(Target) \o <<SerdeUnit, <<"lib", "-", "serde", ".", "json">> >>].readable
    /\ SerdeRlib \in files
    /\ <<"serde">> \in DOMAIN locked_deps
SerdeResolved ==
    SerdeCase =>
        /\ Cardinality(Unwrap(resolved)) = 1
        /\ \A f \in Unwrap(resolved) : f.libname = <<"serde">> /\ f.rlib = SerdeRlib

\* C9 as stated: for every (readable) metadata file
\* <T>/.fingerprint/<s1>-...-<sk>-<hash>/<file>.json, k >= 1, from_path yields
\* the name s1_..._sk and the artifact <T>/deps/lib<s1_..._sk>-<hash>.<ext>,
\* <ext> the first of rlib, so, dylib, dll that exists; it yields nothing when
\* the extension is not json or none of the four exists.  The segments are
\* the pieces between the "-" of the directory name, whatever else they hold.
C9_AsStated ==
    [][Yields /\ C9Case(JustYielded.path)
          => AsClaimed(JustYielded.path, JustYielded.out)]_vars

\* C9 amended: the same, for directory names holding no "." (file_stem cuts
\* the directory name at its last "."), and the end-to-end case of serde.
C9_FromPath ==
    /\ [][Yields /\ C9Case(JustYielded.path) /\ DotFree(UnitOf(JustYielded.path))
            => AsClaimed(JustYielded.path, JustYielded.out)]_vars
    /\ []SerdeResolved

\* A two-part name has been put together in order, and the artifact found
\* under the second extension probed.
C9_Witness ==
    \E i \in 1..Len(yielded) :
        /\ C9Case(yielded[i].path)
        /\ IsSome(yielded[i].out)
        /\ Unwrap(yielded[i].out).libname = <<"serde", "_", "abc123">>
        /\ Extension(Unwrap(yielded[i].out).rlib) = Some(<<"so">>)

\* C2: a metadata file whose artifact exists under none of the probed
\* extensions yields no fingerprint (a fingerprint is yielded only with an
\* artifact that exists, and none is yielded for a unit none of whose four
\* artifacts exists), and no entry whose artifact is gone when the scan
\* finishes is in the resolved set, whatever its version.
C2_OnlyExistingArtifacts ==
    /\ [][Yields =>
            /\ IsSome(JustYielded.out) => Unwrap(JustYielded.out).rlib \in files
            /\ (IsUnitFile(JustYielded.path) /\ DotFree(UnitOf(JustYielded.path))
                 /\ ExistingExts(UnitOf(JustYielded.path)) = {})
                  => JustYielded.out = None]_vars
    /\ [](pc = "resolved" => \A f \in Unwrap(resolved) : f.rlib \in files)

\* The scan has finished with an entry selected whose artifact is gone, and
\* has met a unit without any artifact.
C2_Witness ==
    /\ pc = "resolved"
    /\ \E k \in DOMAIN found_deps : found_deps[k].rlib \notin files
    /\ \E i \in 1..Len(yielded) :
          /\ IsUnitFile(yielded[i].path)
          /\ HasJsonSuffix(Last(yielded[i].path))
          /\ yielded[i].out = None

\* The fingerprints the scan has discovered, each with the file it came from.
Discovered == {i \in 1..Len(yielded) : IsSome(yielded[i].out)}
FingerOf(i) == Unwrap(yielded[i].out)

RECURSIVE FoldFingers(_, _)
FoldFingers(found, fs) ==
    IF Len(fs) = 0 THEN found
    ELSE FoldFingers(ProcessFinger(found, Head(fs)), Tail(fs))

\* The fingerprints of the cache as it stands, in every order.
CacheFingers == {Unwrap(Fingerprint_from_path(p)) :
                    p \in {q \in DOMAIN metas : IsSome(Fingerprint_from_path(q))}}
Orders(S) == {o \in [1..Cardinality(S) -> S] : \A x \in S : \E i \in DOMAIN o : o[i] = x}

\* C8: with the cache unchanged, the resolved set is the one every order of
\* the walk gives: it is a function of the locked dependencies and of the
\* files of the cache alone.
C8_OrderIndependent ==
    (pc = "resolved" /\ files = files0) =>
        \A o \in Orders(CacheFingers) :
            Unwrap(resolved) = FilterExisting(FoldFingers(<< >>, o))

(***************************************************************************)
(* The loop body on any stream of fingerprints                             *)
(***************************************************************************)
MaxFingers == 3

R1 == Target \o << <<"deps">>, <<"lib", "one", ".", "rlib">> >>
R2 == Target \o << <<"deps">>, <<"lib", "two", ".", "rlib">> >>

\* struct Fingerprint, lines 83-88
Fingerprints ==
    [libname : {Foo, Bar, <<"baz">>},
     version : {None} \cup {Some(v) : v \in Versions},
     rlib : {R1, R2},
     mtime : 1..MaxTime]

InitResolver ==
    /\ NoCall
    /\ NoLock
    /\ pc = "loop"
    /\ locked_deps \in {(Foo :> V1), (Foo :> V1) @@ (Bar :> V2)}
    /\ files = {R1}
    /\ files0 = files
    /\ metas = << >>
    /\ walk = {}
    /\ yielded = << >>
    /\ finger = None
    /\ togo = MaxFingers
    /\ found_deps = << >>
    /\ resolved = None

\* One turn of the for loop on the fingerprint f.
Discover(f) ==
    /\ pc = "loop"
    /\ togo > 0
    /\ togo' = togo - 1
    /\ finger' = Some(f)
    /\ found_deps' = ProcessFinger(found_deps, f)
    /\ UNCHANGED <<pc, callVars, lockVars, locked_deps, files, cacheVars, walk,
                   yielded, resolved>>

\* The stream is over: the final filter, and the return.
FinishLoop ==
    /\ pc = "loop"
    /\ resolved' = Some(FilterExisting(found_deps))
    /\ pc' = "resolved"
    /\ UNCHANGED <<callVars, lockVars, locked_deps, files, cacheVars, walk, yielded,
                   finger, togo, found_deps>>

NextResolver ==
    \/ \E f \in Fingerprints : Discover(f)
    \/ FinishLoop

SpecResolver == InitResolver /\ [][NextResolver]_vars

\* C1: the working map holds at most one entry per library name after each
\* fingerprint, and so does the set get_rlib_dependencies returns.
C1_OnePerName ==
    /\ \A k1, k2 \in DOMAIN found_deps :
          found_deps[k1].libname = found_deps[k2].libname => k1 = k2
    /\ pc = "resolved" =>
          \A f, g \in Unwrap(resolved) : f.libname = g.libname => f = g

\* Two names are resolved, after a second fingerprint of foo was met.
C1_Witness ==
    /\ pc = "resolved"
    /\ Cardinality(Unwrap(resolved)) = 2
    /\ IsSome(finger)
    /\ Unwrap(finger).libname = Foo
    /\ Unwrap(finger) # found_deps[Foo]

\* The step has run the loop body on a fingerprint without version whose
\* name is locked.
UnversionedStep ==
    /\ pc = "loop"
    /\ togo' = togo - 1
    /\ Unwrap(finger').version = None
    /\ Unwrap(finger').libname \in DOMAIN locked_deps

\* C4: a fingerprint without version whose name is locked becomes the entry
\* of its name when the name is vacant, and leaves the map as it is when the
\* name is occupied, whatever the two timestamps.
C4_UnversionedOnlyWhenVacant ==
    [][UnversionedStep =>
          IF Unwrap(finger').libname \in DOMAIN found_deps
          THEN found_deps' = found_deps
          ELSE /\ DOMAIN found_deps' = DOMAIN found_deps \cup {Unwrap(finger').libname}
               /\ found_deps'[Unwrap(finger').libname] = Unwrap(finger')
               /\ \A k \in DOMAIN found_deps : found_deps'[k] = found_deps[k]]_vars

\* A fingerprint without version, fresher than the entry of its name, has
\* been met and the entry is still the older one.
C4_Witness ==
    /\ IsSome(finger)
    /\ Unwrap(finger).version = None
    /\ Unwrap(finger).libname \in DOMAIN found_deps
    /\ found_deps[Unwrap(finger).libname].mtime < Unwrap(finger).mtime

(***************************************************************************)
(* The LockedDeps iterator on the identifiers of any metadata              *)
(***************************************************************************)
MaxDeps == 3

ProjectDir == << <<"p">> >>
IdSet == {<<"serde", " ">> \o V1 \o <<" ", "(registry)">>,
          <<"my", "-", "crate", " ">> \o V2,
          <<"foo", " ", " ">> \o V1,
          <<"registry#foo@1">>}
OtherNode == [id |-> <<"other", " ">> \o V1, dependencies |-> << <<"dep", " ">> \o V2 >>]

InitLocked ==
    /\ NoCall
    /\ pc = "iter"
    /\ \E member \in IdSet, edges \in SeqsUpTo(IdSet, MaxDeps) :
          cargo = (ProjectDir :>
                     [ok |-> TRUE,
                      resolve |-> Some(<<OtherNode, [id |-> member, dependencies |-> edges]>>),
                      workspace_members |-> <<member>>,
                      editions |-> << >>])
    /\ dependencies = Unwrap(LockedDeps_from_path(ProjectDir))
    /\ collected = << >>
    /\ locked_deps = << >>
    /\ files = {}
    /\ files0 = {}
    /\ metas = << >>
    /\ walk = {}
    /\ yielded = << >>
    /\ finger = None
    /\ togo = 0
    /\ found_deps = << >>
    /\ resolved = None

NextLocked == IterNext

SpecLocked == InitLocked /\ [][NextLocked]_vars

\* The identifiers collected from the metadata: the edges of every
\* workspace-member node, then the workspace members.
CollectedIds == Unwrap(LockedDeps_from_path(ProjectDir))

\* C7: once the LockedDeps has been iterated, the pairs it produced hold the
\* (normalized name, version) of every collected identifier that has a name
\* token and a version token, also when another identifier has fewer than two
\* tokens.
C7_EveryIdentifierLocked ==
    pc = "scan" =>
        \A i \in 1..Len(CollectedIds) :
            Len(SplitWhitespace(CollectedIds[i])) >= 2 =>
                \E j \in 1..Len(collected) :
                    /\ collected[j][1] = Replace(SplitWhitespace(CollectedIds[i])[1], "-", "_")
                    /\ collected[j][2] = SplitWhitespace(CollectedIds[i])[2]

(***************************************************************************)
(* compile_test and run_test                                               *)
(***************************************************************************)

\* The drop of the TempDir that never removes the directory
DropTempDir_Leaked(dir) == dir

\* The drop of `outdir` (tempfile::TempDir) when compile_test or run_test is
\* left, by return or by a panic's unwinding: the directory is removed.
DropTempDir(dir) == IF dir = "present" THEN "removed" ELSE dir

\* The edition as the number u64::from_str gives, -1 when it is no number.
EditionValue(e) ==
    IF e = "2015" THEN 2015 ELSE IF e = "2018" THEN 2018
    ELSE IF e = "2021" THEN 2021 ELSE -1

\* get_edition(path), lines 147-158: None when the metadata cannot be had,
\* when there is no package, and when an edition is no number (the unwraps).
get_edition(path) ==
    LET metadata == get_cargo_meta(path)
        eds == metadata.editions
    IN  IF ~metadata.ok THEN None
        ELSE IF Len(eds) = 0 THEN None
        ELSE IF \E i \in 1..Len(eds) : EditionValue(eds[i]) < 0 THEN None
        ELSE Some(eds[CHOOSE i \in 1..Len(eds) :
                        /\ \A j \in 1..Len(eds) : EditionValue(eds[j]) <= EditionValue(eds[i])
                        /\ \A j \in (i + 1)..Len(eds) : EditionValue(eds[j]) < EditionValue(eds[i])])

\* target_dir of compile_test_case, lines 274-277
TargetDir(out) == Pop(Pop(Pop(out)))

\* a second root that is the target directory itself
FallbackRoot_NoPop(target) == target

\* root_dir of the or_else closure, lines 168-170
FallbackRoot(target) == Pop(Pop(target))

\* What interpret_output does with the Output of `who`: the steps it gets
\* through, and whether it returns (it panics otherwise).
interpret_output(who, o) ==
    IF ~o.spawned THEN [steps |-> << >>, returns |-> FALSE]
    ELSE IF ~o.stdout_utf8
    THEN [steps |-> <<who \o (IF o.success THEN " exited 0" ELSE " exited 1")>>,
          returns |-> FALSE]
    ELSE IF ~o.stderr_utf8
    THEN [steps |-> <<who \o (IF o.success THEN " exited 0" ELSE " exited 1"),
                      who \o " stdout relayed">>,
          returns |-> FALSE]
    ELSE [steps |-> <<who \o (IF o.success THEN " exited 0" ELSE " exited 1"),
                      who \o " stdout relayed", who \o " stderr relayed">>,
          returns |-> o.success]

\* std::process::Output, and the failure of Command::output()
Outputs == [spawned : BOOLEAN, success : BOOLEAN, stdout_utf8 : BOOLEAN,
            stderr_utf8 : BOOLEAN]

\* temp_dir("rust-skeptic"), lines 216 and 234: the directory is made, or the
\* unwrap panics.
temp_dir ==
    /\ pc = "start"
    /\ \/ outdir' = "present" /\ pc' = "write"
       \/ outdir' = outdir /\ pc' = "unwind"
    /\ UNCHANGED <<inputVars, lock_reads, child, trace, lockVars, locked_deps, files,
                   cacheVars, scanVars>>

\* write_test_case, lines 251-254
write_test_case ==
    /\ pc = "write"
    /\ \/ trace' = Append(trace, "written") /\ pc' = "edition"
       \/ trace' = trace /\ pc' = "unwind"
    /\ UNCHANGED <<inputVars, lock_reads, outdir, child, lockVars, locked_deps, files,
                   cacheVars, scanVars>>

\* compile_test_case up to line 288: get_edition(&root_dir).expect(..)
DetectEdition ==
    /\ pc = "edition"
    /\ IF IsSome(get_edition(root_dir))
       THEN trace' = Append(trace, "edition") /\ pc' = "lock"
       ELSE trace' = trace /\ pc' = "unwind"
    /\ UNCHANGED <<inputVars, lock_reads, outdir, child, lockVars, locked_deps, files,
                   cacheVars, scanVars>>

\* get_rlib_dependencies, lines 165-172: the lock is read from root_dir, or
\* else from the fallback root; `?` and the caller's expect() panic when the
\* second reading fails too.
ReadLock ==
    /\ pc = "lock"
    /\ LET first == LockedDeps_from_path(root_dir)
           second == LockedDeps_from_path(FallbackRoot(TargetDir(out_dir)))
       IN  IF IsSome(first)
           THEN /\ lock_reads' = <<root_dir>>
                /\ dependencies' = Unwrap(first)
                /\ pc' = "iter"
           ELSE /\ lock_reads' = <<root_dir, FallbackRoot(TargetDir(out_dir))>>
                /\ IF IsSome(second)
                   THEN dependencies' = Unwrap(second) /\ pc' = "iter"
                   ELSE dependencies' = dependencies /\ pc' = "unwind"
    /\ UNCHANGED <<inputVars, outdir, child, trace, collected, locked_deps, files,
                   cacheVars, scanVars>>

\* Lines 297-314: the command is completed and interpret_output runs rustc.
RunRustc ==
    /\ pc = "resolved"
    /\ \E o \in Outputs :
          /\ child' = o
          /\ trace' = trace \o interpret_output("rustc", o).steps
          /\ pc' = IF ~interpret_output("rustc", o).returns THEN "unwind"
                   ELSE IF compile_type = "Full" THEN "run" ELSE "return"
    /\ UNCHANGED <<inputVars, lock_reads, outdir, lockVars, locked_deps, files,
                   cacheVars, scanVars>>

\* run_test_case, lines 317-321
run_test_case ==
    /\ pc = "run"
    /\ \E o \in Outputs :
          /\ child' = o
          /\ trace' = trace \o interpret_output("binary", o).steps
          /\ pc' = IF interpret_output("binary", o).returns THEN "return" ELSE "unwind"
    /\ UNCHANGED <<inputVars, lock_reads, outdir, lockVars, locked_deps, files,
                   cacheVars, scanVars>>

\* The entry point returns: `outdir` goes out of scope.
Return ==
    /\ pc = "return"
    /\ outdir' = DropTempDir(outdir)
    /\ pc' = "done"
    /\ UNCHANGED <<inputVars, lock_reads, child, trace, lockVars, locked_deps, files,
                   cacheVars, scanVars>>

\* A panic unwinds through the entry point: `outdir` is dropped on the way.
Unwind ==
    /\ pc = "unwind"
    /\ outdir' = DropTempDir(outdir)
    /\ pc' = "panicked"
    /\ UNCHANGED <<inputVars, lock_reads, child, trace, lockVars, locked_deps, files,
                   cacheVars, scanVars>>

(***************************************************************************)
(* The calls of the entry points                                           *)
(***************************************************************************)
MaxDepth == 6

\* out_dir is a directory at some depth: d1/d2/.../dn
Prefix(n) == [i \in 1..n |-> <<"d", ToString(i)>>]
NominalRoot == << <<"q">> >>

\* The build cache lies where cargo puts it for the deepest out_dir.
CacheTarget == TargetDir(Prefix(MaxDepth))

GoodMetadata(eds) ==
    [ok |-> TRUE,
     resolve |-> Some(<< [id |-> <<"w", " ">> \o V1,
                          dependencies |-> << <<"foo", " ">> \o V1 \o <<" ", "(registry)">>,
                                              <<"bar", " ">> \o V2 >>] >>),
     workspace_members |-> << <<"w", " ">> \o V1 >>,
     editions |-> eds]
Unlocked == [ok |-> TRUE, resolve |-> None, workspace_members |-> << >>,
             editions |-> <<"2018">>]
RootAnswers == {NoMetadata, Unlocked, GoodMetadata(<<"2015", "2018">>),
                GoodMetadata(<<"2015", "twenty">>), GoodMetadata(<< >>)}

Init ==
    /\ pc = "start"
    /\ compile_type \in {"Full", "Check"}
    /\ out_dir \in {Prefix(n) : n \in 0..MaxDepth}
    /\ root_dir \in {NominalRoot, FallbackRoot(CacheTarget)}
    /\ \E a \in RootAnswers, b \in {NoMetadata, GoodMetadata(<<"2018">>)} :
          cargo = [d \in {NominalRoot} \cup {Prefix(n) : n \in 0..MaxDepth} |->
                      IF d = root_dir THEN a ELSE b]
    /\ lock_reads = << >>
    /\ dependencies = << >>
    /\ collected = << >>
    /\ locked_deps = << >>
    /\ metas = (FingerprintDir(CacheTarget) :> DirAttrs)
               @@ (Append(FingerprintDir(CacheTarget), FooH1) :> DirAttrs)
               @@ (Append(FingerprintDir(CacheTarget), BarH1) :> DirAttrs)
               @@ (MetaFile(CacheTarget, FooH1) :> [mtime |-> 1, readable |-> TRUE, ver |-> V1])
               @@ (MetaFile(CacheTarget, BarH1) :> [mtime |-> 1, readable |-> TRUE, ver |-> V2])
    /\ files = {CargoArtifact(CacheTarget, FooH1, <<"rlib">>),
                CargoArtifact(CacheTarget, BarH1, <<"so">>)}
    /\ files0 = files
    /\ walk = {p \in DOMAIN metas : IsPrefix(FingerprintDir(TargetDir(out_dir)), p)}
    /\ yielded = << >>
    /\ finger = None
    /\ togo = 0
    /\ found_deps = << >>
    /\ resolved = None
    /\ outdir = "none"
    /\ child = None
    /\ trace = << >>

Next ==
    \/ temp_dir
    \/ write_test_case
    \/ DetectEdition
    \/ ReadLock
    \/ IterNext
    \/ \E p \in walk : Visit(p)
    \/ FinishScan
    \/ \E a \in files : RemoveArtifact(a)
    \/ RunRustc
    \/ run_test_case
    \/ Return
    \/ Unwind

Spec == Init /\ [][Next]_vars

Terminated == pc \in {"done", "panicked"}

\* C5: compile_test and run_test are never left, by return or by panic, with
\* the temporary directory still on disk.
C5_TempDirRemoved == Terminated => outdir # "present"

\* The call has ended in a panic after the compiler exited non-zero, and the
\* directory it had made is gone.
C5_Witness ==
    /\ pc = "panicked"
    /\ outdir = "removed"
    /\ \E i \in 1..Len(trace) : trace[i] = "rustc exited 1"

\* The call has panicked before get_rlib_dependencies returned.
ResolutionFailed ==
    /\ pc \in {"unwind", "panicked"}
    /\ \A i \in 1..Len(trace) : trace[i] # "resolved"

\* C6 as stated: a second reading of the lock is from the directory three
\* levels above out_dir.
C6_AsStated ==
    Len(lock_reads) = 2 => lock_reads[2] = Pop(Pop(Pop(out_dir)))

\* C6 amended: the lock is read from root_dir first; when that fails it is
\* read a second time, from the directory five levels above out_dir (two
\* above the target directory, itself three above out_dir), and the
\* resolution fails exactly when the second reading fails.
C6_FallbackRoot ==
    Len(lock_reads) > 0 =>
        /\ lock_reads[1] = root_dir
        /\ IF IsSome(LockedDeps_from_path(root_dir))
           THEN Len(lock_reads) = 1
           ELSE /\ Len(lock_reads) = 2
                /\ lock_reads[2] = Pop(Pop(Pop(Pop(Pop(out_dir)))))
                /\ ResolutionFailed <=> ~IsSome(LockedDeps_from_path(lock_reads[2]))

\* The lock could not be read from root_dir, was read from five levels above
\* out_dir, which is not three levels above it, and the resolution went on.
C6_Witness ==
    /\ Len(lock_reads) = 2
    /\ lock_reads[2] # Pop(Pop(Pop(out_dir)))
    /\ pc = "resolved"

Pos(e) == IF \E i \in 1..Len(trace) : trace[i] = e
          THEN CHOOSE i \in 1..Len(trace) : trace[i] = e
          ELSE 0
Exits(who) == {i \in 1..Len(trace) : trace[i] \in {who \o " exited 0", who \o " exited 1"}}

\* The steps come in the order written, edition, resolved, compiler.
StepsInOrder ==
    /\ Pos("edition") > 0 => (0 < Pos("written") /\ Pos("written") < Pos("edition"))
    /\ Pos("resolved") > 0 => (0 < Pos("edition") /\ Pos("edition") < Pos("resolved"))
    /\ \A i \in Exits("rustc") : 0 < Pos("resolved") /\ Pos("resolved") < i

\* The binary runs only in run mode, after the compiler has exited with zero.
BinaryOnlyAfterSuccess ==
    \A i \in Exits("binary") :
        /\ compile_type = "Full"
        /\ 0 < Pos("rustc exited 0") /\ Pos("rustc exited 0") < i

\* A non-zero exit of `who` is followed by the relay of its two streams and
\* by nothing else, and the call ends in failure.
FailureAfterRelay(who) ==
    \A i \in 1..Len(trace) :
        trace[i] = who \o " exited 1" =>
            /\ pc \in {"unwind", "panicked"}
            /\ Len(trace) = i + 2
            /\ trace[i + 1] = who \o " stdout relayed"
            /\ trace[i + 2] = who \o " stderr relayed"

\* C10: the steps occur in the order snippet written, dialect detected,
\* dependencies resolved, compiler executed; the binary is executed only in
\* run mode and only after the compiler exited with zero; a non-zero exit of
\* the compiler or of the binary ends the call in failure with no later
\* step, after the subprocess's standard output and standard error have
\* been relayed.
C10_StepsAndRelay ==
    /\ StepsInOrder
    /\ BinaryOnlyAfterSuccess
    /\ FailureAfterRelay("rustc")
    /\ FailureAfterRelay("binary")

====
